---- MODULE Spec2Model ----
(***************************************************************************)
(* Model of gmail_mcp.tools.batch_ops.process_batches: the chunked bulk    *)
(* executor with per-item fallback.  The transformation function           *)
(* process_fn is the caller's: each of its calls either returns a list of  *)
(* result records or raises an Exception.                                  *)
(***************************************************************************)
EXTENDS Integers, Sequences, FiniteSets, TLC

-----------------------------------------------------------------------------
(* Bounds of the model *)

MaxLen == 4
MaxBatchSize == 3
MaxItem == 2
MaxDupLen == 2
MaxNegBatch == 1
MaxCalls == 3
MaxLabelCalls == 3

(* Messages an exception of process_fn may carry *)
Msgs == {"e1", "e2"}

-----------------------------------------------------------------------------
VARIABLES
    items,       \* argument items of process_batches
    batch_size,  \* argument batch_size of process_batches
    fn_total,    \* process_fn returns one result per item when it succeeds
    successes,   \* local successes
    failures,    \* local failures
    i,           \* loop variable of `for i in range(0, len(items), batch_size)`
    batch,       \* local batch
    k,           \* 0-based index of `for item in batch`
    pc,          \* position in process_batches
    inflight,    \* calls of process_fn that have started and not yet finished
    log,         \* finished calls of process_fn, in the order they finished
    ret          \* value returned by process_batches (<<>> until it returns)

vars == <<items, batch_size, fn_total, successes, failures, i, batch, k, pc,
          inflight, log, ret>>

\* batch_modify_emails / batch_trash_emails around process_batches
VARIABLES
    tool,            \* the tool called: its process function is the transformation
    batch_size_arg,  \* argument batch_size of the tool: <<>> is None, <<n>> an int
    mid,             \* 0-based index of `for mid in batch` in the process function
    requests,        \* Gmail modify / trash requests executed so far, in order
    report           \* what the tool reports (<<>> until it returns)

toolVars == <<tool, batch_size_arg, mid, requests, report>>

\* gmail_service: the cached service and the credentials file
VARIABLES
    _service,          \* module global _service: <<>> is None, <<s>> a service
    credentials_file,  \* CREDENTIALS_PATH: <<>> is no file, <<json>> its content
    creds,             \* local creds of the running call (<<>> outside a call)
    spc,               \* position in get_gmail_service
    ncalls,            \* calls of get_gmail_service started so far
    svc_log            \* what the calls did, in order

serviceVars == <<_service, credentials_file, creds, spc, ncalls, svc_log>>

\* label_ops: delete_label and get_or_create_label against the account's labels
VARIABLES
    labels,    \* the labels of the Gmail account, in the order labels().list gives
    lpc,       \* position in the running label tool
    lcall,     \* the running call: <<>> or <<[op, id, name]>>
    label,     \* local label of delete_label: <<>> until fetched
    resp,      \* local resp of get_or_create_label: <<>> until listed
    nlcalls,   \* label tool calls started so far
    lab_log    \* calls, Gmail requests and outcomes, in order

labelVars == <<labels, lpc, lcall, label, resp, nlcalls, lab_log>>

\* filter_ops.create_filter_from_template
VARIABLES
    fargs,     \* the arguments of the call
    fpc,       \* position in create_filter_from_template
    config,    \* local config: <<>> until the template function returned
    flt_log    \* get_gmail_service calls, create requests and the outcome

filterVars == <<fargs, fpc, config, flt_log>>

\* email_ops.modify_email
VARIABLES
    margs,     \* the arguments of the call
    mpc,       \* position in modify_email
    body,      \* local body: <<>> before `body: dict = {}`
    mod_log    \* modify requests and the outcome

modifyVars == <<margs, mpc, body, mod_log>>

\* every variable outside the batch tools
otherVars == <<serviceVars, labelVars, filterVars, modifyVars>>

\* every variable outside process_batches
restVars == <<toolVars, otherVars>>

allVars == <<vars, restVars>>

\* no call of process_batches is running or has run
BatchIdle ==
    /\ items = <<>>
    /\ batch_size = 0
    /\ fn_total = TRUE
    /\ successes = <<>>
    /\ failures = <<>>
    /\ i = 0
    /\ batch = <<>>
    /\ k = 0
    /\ pc = "none"
    /\ inflight = <<>>
    /\ log = <<>>
    /\ ret = <<>>

\* get_gmail_service is not part of the run
ServiceIdle ==
    /\ _service = <<>>
    /\ credentials_file = <<>>
    /\ creds = <<>>
    /\ spc = "idle"
    /\ ncalls = 0
    /\ svc_log = <<>>

\* no label tool is part of the run
LabelIdle ==
    /\ labels = <<>>
    /\ lpc = "idle"
    /\ lcall = <<>>
    /\ label = <<>>
    /\ resp = <<>>
    /\ nlcalls = 0
    /\ lab_log = <<>>

\* create_filter_from_template is not part of the run
FilterIdle ==
    /\ fargs = <<>>
    /\ fpc = "none"
    /\ config = <<>>
    /\ flt_log = <<>>

\* modify_email is not part of the run
ModifyIdle ==
    /\ margs = <<>>
    /\ mpc = "none"
    /\ body = <<>>
    /\ mod_log = <<>>

\* nothing outside the batch tools is part of the run
OtherIdle == ServiceIdle /\ LabelIdle /\ FilterIdle /\ ModifyIdle

-----------------------------------------------------------------------------
(* Python helpers *)

Min(a, b) == IF a < b THEN a ELSE b

\* xs[a:b] for 0 <= a, 0 <= b
Slice(xs, a, b) == SubSeq(xs, a + 1, Min(b, Len(xs)))

\* a range that stops before a short last chunk
InRange_FullChunksOnly(v, stop, step) == v + step <= stop

\* membership of v in range(0, stop, step) reached by counting from 0
InRange(v, stop, step) == IF step > 0 THEN v < stop ELSE v > stop

\* an Exception instance and str() of it
Exc(m) == [args |-> <<m>>]

Errors == {Exc(m) : m \in Msgs}

Str(e) == IF e.args = <<>> THEN "" ELSE e.args[1]

\* the success record a process function builds for one item
Result(item) == [messageId |-> item, success |-> TRUE]

\* what process_fn returns for the list xs when it does not raise
ProcessFnResults(xs) ==
    LET full == [x \in 1..Len(xs) |-> Result(xs[x])]
    IN  IF fn_total THEN full ELSE SubSeq(full, 1, Len(full) - 1)

\* the inputs: the lists 1..n, and every short list over 1..MaxItem
InputLists ==
    {[p \in 1..n |-> p] : n \in 0..MaxLen}
    \cup UNION {[1..n -> 1..MaxItem] : n \in 0..MaxDupLen}

Call(kind, lo, arg) == [kind |-> kind, lo |-> lo, arg |-> arg]

Done(c, res, exc) ==
    [kind |-> c.kind, lo |-> c.lo, arg |-> c.arg, res |-> res, exc |-> exc]

-----------------------------------------------------------------------------
\* the arguments of a call: an input list with a batch size, or the worked
\* example items = [1,2,3,4,5], batch_size = 2
Arguments ==
    (InputLists \X (1..MaxBatchSize)) \cup {<<<<1, 2, 3, 4, 5>>, 2>>}

\* process_batches called on its own: no tool is running
ToolIdle ==
    /\ tool = "none"
    /\ batch_size_arg = <<>>
    /\ mid = 0
    /\ requests = <<>>
    /\ report = <<>>

Init ==
    /\ \E a \in Arguments : items = a[1] /\ batch_size = a[2]
    /\ fn_total \in BOOLEAN
    /\ successes = <<>>
    /\ failures = <<>>
    /\ i = 0
    /\ batch = <<>>
    /\ k = 0
    /\ pc = "for"
    /\ inflight = <<>>
    /\ log = <<>>
    /\ ret = <<>>
    /\ ToolIdle
    /\ OtherIdle

\* `items[i : i + batch_size + 1]`
Chunk_Overlap(v) == Slice(items, v, v + batch_size + 1)

\* the chunk starting at offset v
Chunk(v) == Slice(items, v, v + batch_size)

\* the loop variable after the chunk at offset v
NextIndex(v) == v + batch_size

\* `for item in reversed(batch)`
RetryOrder_Reversed(b) == [x \in 1..Len(b) |-> Len(b) - x + 1]

\* `for item in batch[1:]`
RetryOrder_SkipFirst(b) == [x \in 1..(Len(b) - 1) |-> x + 1]

\* `for item in batch`: the 1-based offsets into the batch, in iteration order
RetryOrder(b) == [x \in 1..Len(b) |-> x]

\* the except branch of the bulk call keeps its exception and the singleton
\* branch reports that one
FailurePair_ChunkErr(item, e) ==
    LET bulk == SelectSeq(log, LAMBDA c : c.kind = "bulk")
    IN  <<item, Str(bulk[Len(bulk)].exc[1])>>

\* `failures.append((batch[0], str(item_err)))`
FailurePair_FirstOfBatch(item, e) == <<batch[1], Str(e)>>

\* the pair appended to failures for an item whose singleton call raised e
FailurePair(item, e) == <<item, Str(e)>>

\* `successes = results + successes`
Extend_Prepend(xs, ys) == ys \o xs

\* `successes = results` in place of extend
Extend_Assign(xs, ys) == ys

\* list.extend
Extend(xs, ys) == xs \o ys

\* for i in range(...): batch = items[i:i+batch_size]; try: process_fn(batch)
ForNext ==
    /\ pc = "for"
    /\ InRange(i, Len(items), batch_size)
    /\ batch' = Chunk(i)
    /\ inflight' = Append(inflight, Call("bulk", i, batch'))
    /\ pc' = "bulk"
    /\ UNCHANGED <<items, batch_size, fn_total, successes, failures, i, k,
                   log, ret>>

\* results = process_fn(batch); successes.extend(results)
BulkReturn ==
    /\ pc = "bulk"
    /\ LET results == ProcessFnResults(batch)
       IN  /\ successes' = Extend(successes, results)
           /\ log' = Append(log, Done(inflight[1], results, <<>>))
    /\ inflight' = Tail(inflight)
    /\ i' = NextIndex(i)
    /\ pc' = "for"
    /\ UNCHANGED <<items, batch_size, fn_total, failures, batch, k, ret>>

\* process_fn(batch) raises e; except Exception: for item in batch
BulkRaise(e) ==
    /\ pc = "bulk"
    /\ log' = Append(log, Done(inflight[1], <<>>, <<e>>))
    /\ inflight' = Tail(inflight)
    /\ k' = 0
    /\ IF Len(RetryOrder(batch)) = 0
         THEN pc' = "for" /\ i' = NextIndex(i)
         ELSE pc' = "items" /\ i' = i
    /\ UNCHANGED <<items, batch_size, fn_total, successes, failures, batch,
                   ret>>

\* for item in batch: try: process_fn([item])
ItemCall ==
    /\ pc = "items"
    /\ k < Len(RetryOrder(batch))
    /\ LET off == RetryOrder(batch)[k + 1]
       IN  inflight' = Append(inflight, Call("single", i + off - 1, <<batch[off]>>))
    /\ pc' = "single"
    /\ UNCHANGED <<items, batch_size, fn_total, successes, failures, i, batch,
                   k, log, ret>>

\* end of one iteration of `for item in batch`
ItemAdvance ==
    /\ k' = k + 1
    /\ IF k + 1 < Len(RetryOrder(batch))
         THEN pc' = "items" /\ i' = i
         ELSE pc' = "for" /\ i' = NextIndex(i)

\* result = process_fn([item]); successes.extend(result)
ItemReturn ==
    /\ pc = "single"
    /\ LET result == ProcessFnResults(inflight[1].arg)
       IN  /\ successes' = Extend(successes, result)
           /\ log' = Append(log, Done(inflight[1], result, <<>>))
    /\ inflight' = Tail(inflight)
    /\ ItemAdvance
    /\ UNCHANGED <<items, batch_size, fn_total, failures, batch, ret>>

\* no except branch around the singleton call: the exception leaves
\* process_batches
ItemRaise_Propagate(e) ==
    /\ pc = "single"
    /\ log' = Append(log, Done(inflight[1], <<>>, <<e>>))
    /\ inflight' = Tail(inflight)
    /\ pc' = "raised"
    /\ UNCHANGED <<items, batch_size, fn_total, successes, failures, i, batch,
                   k, ret>>

\* an except branch that records the failure and gives up on the whole run
ItemRaise_Abort(e) ==
    /\ pc = "single"
    /\ failures' = Append(failures, FailurePair(inflight[1].arg[1], e))
    /\ log' = Append(log, Done(inflight[1], <<>>, <<e>>))
    /\ inflight' = Tail(inflight)
    /\ k' = k + 1
    /\ pc' = "for"
    /\ i' = Len(items)
    /\ UNCHANGED <<items, batch_size, fn_total, successes, batch, ret>>

\* except Exception as item_err: failures.append((item, str(item_err)))
ItemRaise(e) ==
    /\ pc = "single"
    /\ failures' = Append(failures, FailurePair(inflight[1].arg[1], e))
    /\ log' = Append(log, Done(inflight[1], <<>>, <<e>>))
    /\ inflight' = Tail(inflight)
    /\ ItemAdvance
    /\ UNCHANGED <<items, batch_size, fn_total, successes, batch, ret>>

\* return successes, failures
Return ==
    /\ pc = "for"
    /\ ~InRange(i, Len(items), batch_size)
    /\ ret' = <<<<successes, failures>>>>
    /\ pc' = "done"
    /\ UNCHANGED <<items, batch_size, fn_total, successes, failures, i, batch,
                   k, inflight, log>>

Next ==
    \/ ForNext /\ UNCHANGED restVars
    \/ BulkReturn /\ UNCHANGED restVars
    \/ \E e \in Errors : BulkRaise(e) /\ UNCHANGED restVars
    \/ ItemCall /\ UNCHANGED restVars
    \/ ItemReturn /\ UNCHANGED restVars
    \/ \E e \in Errors : ItemRaise(e) /\ UNCHANGED restVars
    \/ Return /\ UNCHANGED restVars

Spec == Init /\ [][Next]_allVars

\* process_batches is synchronous straight-line code: it keeps running, and
\* every call of process_fn it waits for returns or raises
FairSpec == Spec /\ WF_allVars(Next)

-----------------------------------------------------------------------------
(* batch_modify_emails and batch_trash_emails: process_batches with the      *)
(* tool's process function, which sends one Gmail request per message id     *)

\* every variable outside process_batches and the batch tools
toolRest == otherVars

Tools == {"batch_modify_emails", "batch_trash_emails"}

DefaultBatchSize == 50

\* `batch_size or 50`
OrDefault(x) == IF x = <<>> \/ x[1] = 0 THEN DefaultBatchSize ELSE x[1]

\* the values of the tool's batch_size: None, or an int
BatchSizeArgs ==
    {<<>>} \cup {<<n>> : n \in (0 - MaxNegBatch)..MaxBatchSize}

\* one executed request of the running call of the process function
Request(ok) ==
    [op |-> IF tool = "batch_modify_emails" THEN "modify" ELSE "trash",
     id |-> inflight[1].arg[mid + 1],
     pos |-> inflight[1].lo + mid + 1,
     kind |-> inflight[1].kind,
     call |-> Len(log) + 1,
     ok |-> ok]

ToolInit ==
    /\ tool \in Tools
    /\ batch_size_arg \in BatchSizeArgs
    /\ items \in InputLists
    /\ batch_size = 0
    /\ fn_total = TRUE
    /\ successes = <<>>
    /\ failures = <<>>
    /\ i = 0
    /\ batch = <<>>
    /\ k = 0
    /\ pc = "tool"
    /\ inflight = <<>>
    /\ log = <<>>
    /\ ret = <<>>
    /\ mid = 0
    /\ requests = <<>>
    /\ report = <<>>
    /\ OtherIdle

\* successes, failures = process_batches(message_ids, batch_size or 50, fn)
ToolCall ==
    /\ pc = "tool"
    /\ batch_size' = OrDefault(batch_size_arg)
    /\ pc' = "for"
    /\ UNCHANGED <<items, fn_total, successes, failures, i, batch, k, inflight,
                   log, ret>>
    /\ UNCHANGED toolVars

\* process_batches submits the next chunk to the process function
ToolForNext ==
    /\ ForNext
    /\ mid' = 0
    /\ UNCHANGED <<tool, batch_size_arg, requests, report>>

\* process_batches submits one item of a failed chunk
ToolItemCall ==
    /\ ItemCall
    /\ mid' = 0
    /\ UNCHANGED <<tool, batch_size_arg, requests, report>>

\* for mid in batch: ...execute() returns; results.append(...)
RequestOk ==
    /\ pc \in {"bulk", "single"}
    /\ mid < Len(inflight[1].arg)
    /\ requests' = Append(requests, Request(TRUE))
    /\ mid' = mid + 1
    /\ UNCHANGED vars
    /\ UNCHANGED <<tool, batch_size_arg, report>>

\* ...execute() raises in the call for a whole chunk
BulkRequestFail(e) ==
    /\ pc = "bulk"
    /\ mid < Len(inflight[1].arg)
    /\ requests' = Append(requests, Request(FALSE))
    /\ mid' = 0
    /\ BulkRaise(e)
    /\ UNCHANGED <<tool, batch_size_arg, report>>

\* ...execute() raises in the call for a single item
ItemRequestFail(e) ==
    /\ pc = "single"
    /\ mid < Len(inflight[1].arg)
    /\ requests' = Append(requests, Request(FALSE))
    /\ mid' = 0
    /\ ItemRaise(e)
    /\ UNCHANGED <<tool, batch_size_arg, report>>

\* return results, in the call for a whole chunk
FnBulkReturn ==
    /\ pc = "bulk"
    /\ mid = Len(inflight[1].arg)
    /\ BulkReturn
    /\ mid' = 0
    /\ UNCHANGED <<tool, batch_size_arg, requests, report>>

\* return results, in the call for a single item
FnItemReturn ==
    /\ pc = "single"
    /\ mid = Len(inflight[1].arg)
    /\ ItemReturn
    /\ mid' = 0
    /\ UNCHANGED <<tool, batch_size_arg, requests, report>>

\* process_batches returns to the tool
ToolGetsResult ==
    /\ Return
    /\ UNCHANGED toolVars

\* the tool renders its report: the two counts
ToolReport ==
    /\ pc = "done"
    /\ report' = <<[processed |-> Len(ret[1][1]), failed |-> Len(ret[1][2])]>>
    /\ pc' = "reported"
    /\ UNCHANGED <<items, batch_size, fn_total, successes, failures, i, batch,
                   k, inflight, log, ret>>
    /\ UNCHANGED <<tool, batch_size_arg, mid, requests>>

ToolNext ==
    \/ ToolCall /\ UNCHANGED toolRest
    \/ ToolForNext /\ UNCHANGED toolRest
    \/ ToolItemCall /\ UNCHANGED toolRest
    \/ RequestOk /\ UNCHANGED toolRest
    \/ \E e \in Errors : BulkRequestFail(e) /\ UNCHANGED toolRest
    \/ \E e \in Errors : ItemRequestFail(e) /\ UNCHANGED toolRest
    \/ FnBulkReturn /\ UNCHANGED toolRest
    \/ FnItemReturn /\ UNCHANGED toolRest
    \/ ToolGetsResult /\ UNCHANGED toolRest
    \/ ToolReport /\ UNCHANGED toolRest

ToolSpec == ToolInit /\ [][ToolNext]_allVars

-----------------------------------------------------------------------------
(* gmail_service.get_gmail_service: the lazily built, cached Gmail service   *)

\* every variable outside get_gmail_service
serviceRest == <<vars, toolVars, labelVars, filterVars, modifyVars>>

\* the credentials a file can hold: an access token, an optional refresh
\* token, and an expiry that lies in the past, in the future, or is absent
FileContents ==
    [token : {0}, refresh_token : {<<>>, <<"r">>},
     expiry : {"past", "future", "none"}]

\* Credentials.from_authorized_user_info(json.loads(text), SCOPES)
FromAuthorizedUserInfo(info) ==
    [token |-> info.token, refresh_token |-> info.refresh_token,
     expiry |-> info.expiry, scopes |-> "SCOPES"]

\* creds.to_json()
ToJson(c) ==
    [token |-> c.token, refresh_token |-> c.refresh_token, expiry |-> c.expiry]

\* creds.expired
Expired(c) == c.expiry = "past"

\* `if creds.expired and creds.refresh_token:`
NeedsRefresh(c) == Expired(c) /\ c.refresh_token # <<>>

\* creds.refresh(Request()) when the token endpoint answers
Refreshed(c) ==
    [c EXCEPT !.token = c.token + 1, !.expiry = "future"]

\* build("gmail", "v1", credentials=creds): a new service object
Build(c) == [id |-> ncalls, credentials |-> c]

Event(ev, val) == [call |-> ncalls, ev |-> ev, val |-> val]

ServiceInit ==
    /\ _service = <<>>
    /\ credentials_file \in {<<>>} \cup {<<f>> : f \in FileContents}
    /\ creds = <<>>
    /\ spc = "idle"
    /\ ncalls = 0
    /\ svc_log = <<>>
    /\ BatchIdle
    /\ ToolIdle
    /\ LabelIdle
    /\ FilterIdle
    /\ ModifyIdle

\* if _service is not None: return _service
SvcCached ==
    /\ spc = "idle"
    /\ ncalls < MaxCalls
    /\ _service # <<>>
    /\ ncalls' = ncalls + 1
    /\ svc_log' = Append(svc_log, [call |-> ncalls + 1, ev |-> "return", val |-> _service])
    /\ UNCHANGED <<_service, credentials_file, creds, spc>>

\* if not CREDENTIALS_PATH.exists(): raise RuntimeError
SvcNoCredentials ==
    /\ spc = "idle"
    /\ ncalls < MaxCalls
    /\ _service = <<>>
    /\ credentials_file = <<>>
    /\ ncalls' = ncalls + 1
    /\ svc_log' = Append(svc_log, [call |-> ncalls + 1, ev |-> "raise", val |-> <<"RuntimeError">>])
    /\ UNCHANGED <<_service, credentials_file, creds, spc>>

\* creds = Credentials.from_authorized_user_info(json.loads(read_text()))
SvcLoad ==
    /\ spc = "idle"
    /\ ncalls < MaxCalls
    /\ _service = <<>>
    /\ credentials_file # <<>>
    /\ ncalls' = ncalls + 1
    /\ creds' = <<FromAuthorizedUserInfo(credentials_file[1])>>
    /\ svc_log' = Append(svc_log, [call |-> ncalls + 1, ev |-> "read", val |-> creds'])
    /\ spc' = "loaded"
    /\ UNCHANGED <<_service, credentials_file>>

\* creds.refresh(Request()) returns
SvcRefreshOk ==
    /\ spc = "loaded"
    /\ NeedsRefresh(creds[1])
    /\ creds' = <<Refreshed(creds[1])>>
    /\ svc_log' = Append(svc_log, Event("refresh", creds'))
    /\ spc' = "refreshed"
    /\ UNCHANGED <<_service, credentials_file, ncalls>>

\* creds.refresh(Request()) raises
SvcRefreshFail ==
    /\ spc = "loaded"
    /\ NeedsRefresh(creds[1])
    /\ creds' = <<>>
    /\ svc_log' = svc_log \o <<Event("refresh", <<>>), Event("raise", <<"RefreshError">>)>>
    /\ spc' = "idle"
    /\ UNCHANGED <<_service, credentials_file, ncalls>>

\* the refresh branch is not taken
SvcNoRefresh ==
    /\ spc = "loaded"
    /\ ~NeedsRefresh(creds[1])
    /\ spc' = "build"
    /\ UNCHANGED <<_service, credentials_file, creds, ncalls, svc_log>>

\* a refresh branch that leaves the file alone
SvcWrite_Skip ==
    /\ spc = "refreshed"
    /\ spc' = "build"
    /\ UNCHANGED <<_service, credentials_file, creds, ncalls, svc_log>>

\* CREDENTIALS_PATH.write_text(creds.to_json())
SvcWrite ==
    /\ spc = "refreshed"
    /\ credentials_file' = <<ToJson(creds[1])>>
    /\ svc_log' = Append(svc_log, Event("write", credentials_file'))
    /\ spc' = "build"
    /\ UNCHANGED <<_service, creds, ncalls>>

\* `_service = build(...)` without `global _service`: the cache stays unset
SvcBuildOk_NoCache ==
    /\ spc = "build"
    /\ svc_log' = svc_log \o <<Event("build", <<Build(creds[1])>>),
                               Event("return", <<Build(creds[1])>>)>>
    /\ creds' = <<>>
    /\ spc' = "idle"
    /\ UNCHANGED <<_service, credentials_file, ncalls>>

\* _service = build("gmail", "v1", credentials=creds); return _service
SvcBuildOk ==
    /\ spc = "build"
    /\ _service' = <<Build(creds[1])>>
    /\ svc_log' = svc_log \o <<Event("build", _service'), Event("return", _service')>>
    /\ creds' = <<>>
    /\ spc' = "idle"
    /\ UNCHANGED <<credentials_file, ncalls>>

\* build(...) raises
SvcBuildFail ==
    /\ spc = "build"
    /\ svc_log' = Append(svc_log, Event("raise", <<"BuildError">>))
    /\ creds' = <<>>
    /\ spc' = "idle"
    /\ UNCHANGED <<_service, credentials_file, ncalls>>

\* between calls the expiry of the stored token passes
TokenExpires ==
    /\ spc = "idle"
    /\ credentials_file # <<>>
    /\ credentials_file[1].expiry = "future"
    /\ credentials_file' = <<[credentials_file[1] EXCEPT !.expiry = "past"]>>
    /\ UNCHANGED <<_service, creds, spc, ncalls, svc_log>>

ServiceNext ==
    \/ SvcCached /\ UNCHANGED serviceRest
    \/ SvcNoCredentials /\ UNCHANGED serviceRest
    \/ SvcLoad /\ UNCHANGED serviceRest
    \/ SvcRefreshOk /\ UNCHANGED serviceRest
    \/ SvcRefreshFail /\ UNCHANGED serviceRest
    \/ SvcNoRefresh /\ UNCHANGED serviceRest
    \/ SvcWrite /\ UNCHANGED serviceRest
    \/ SvcBuildOk /\ UNCHANGED serviceRest
    \/ SvcBuildFail /\ UNCHANGED serviceRest
    \/ TokenExpires /\ UNCHANGED serviceRest

ServiceSpec == ServiceInit /\ [][ServiceNext]_allVars

-----------------------------------------------------------------------------
(* label_ops.delete_label and label_ops.get_or_create_label                  *)

\* every variable outside the label tools
labelRest == <<vars, toolVars, serviceVars, filterVars, modifyVars>>

\* label names: sequences of characters
Names == {<<"a", "b">>, <<"A", "B">>, <<"A", "b">>, <<"c">>}

\* str.lower() on one character
LowerChar(c) ==
    CASE c = "A" -> "a"
      [] c = "B" -> "b"
      [] c = "C" -> "c"
      [] OTHER -> c

\* str.lower()
Lower(str) == [x \in 1..Len(str) |-> LowerChar(str[x])]

\* `label.get("name", "") == name`
SameName_Exact(a, b) == a = b

\* `label.get("name", "").lower() == name.lower()`
SameName(a, b) == Lower(a) = Lower(b)

\* `label.get("type") == "system"` never true
IsSystem_Never(l) == FALSE

\* `label.get("type") == "system"`
IsSystem(l) == l.type = "system"

\* a label Gmail provides itself, and a label the user made
SystemLabel == [id |-> 1, name |-> <<"C">>, type |-> "system"]
UserLabel == [id |-> 2, name |-> <<"A", "b">>, type |-> "user"]

\* index of the first label of ls whose name matches, 0 when none does:
\* `for label in resp.get("labels", []): if ...: return`
FirstMatch(ls, name) ==
    LET hits == {x \in 1..Len(ls) : SameName(ls[x].name, name)}
    IN  IF hits = {} THEN 0 ELSE CHOOSE x \in hits : \A y \in hits : x <= y

\* labels().delete on the account
WithoutId(ls, id) == SelectSeq(ls, LAMBDA l : l.id # id)

\* the label labels().create adds; Gmail gives it an id of its own
Created(name) == [id |-> nlcalls + 2, name |-> name, type |-> "user"]

LEvent(ev, id, name, type, ok) ==
    [call |-> nlcalls, ev |-> ev, id |-> id, name |-> name, type |-> type, ok |-> ok]

LabelInit ==
    /\ labels \in {<<SystemLabel>>, <<SystemLabel, UserLabel>>}
    /\ lpc = "idle"
    /\ lcall = <<>>
    /\ label = <<>>
    /\ resp = <<>>
    /\ nlcalls = 0
    /\ lab_log = <<>>
    /\ BatchIdle
    /\ ToolIdle
    /\ ServiceIdle
    /\ FilterIdle
    /\ ModifyIdle

\* the call is over: its locals are gone
LabelCallEnds ==
    /\ lpc' = "idle"
    /\ lcall' = <<>>
    /\ label' = <<>>
    /\ resp' = <<>>

\* delete_label(id) is called
DeleteLabelCall(id) ==
    /\ lpc = "idle"
    /\ nlcalls < MaxLabelCalls
    /\ nlcalls' = nlcalls + 1
    /\ lcall' = <<[op |-> "delete_label", id |-> id, name |-> <<>>]>>
    /\ lpc' = "get"
    /\ lab_log' = Append(lab_log, [call |-> nlcalls', ev |-> "delete_label",
                                   id |-> id, name |-> <<>>, type |-> "", ok |-> TRUE])
    /\ UNCHANGED <<labels, label, resp>>

\* get_or_create_label(name) is called
GetOrCreateLabelCall(name) ==
    /\ lpc = "idle"
    /\ nlcalls < MaxLabelCalls
    /\ nlcalls' = nlcalls + 1
    /\ lcall' = <<[op |-> "get_or_create_label", id |-> 0, name |-> name]>>
    /\ lpc' = "list"
    /\ lab_log' = Append(lab_log, [call |-> nlcalls', ev |-> "get_or_create_label",
                                   id |-> 0, name |-> name, type |-> "", ok |-> TRUE])
    /\ UNCHANGED <<labels, label, resp>>

\* `gmail = get_gmail_service()` raises
LabelNoService ==
    /\ lpc \in {"get", "list"}
    /\ lab_log' = Append(lab_log, LEvent("raise", 0, <<>>, "", FALSE))
    /\ LabelCallEnds
    /\ UNCHANGED <<labels, nlcalls>>

\* labels().get(userId="me", id=id).execute() returns the label
GetOk ==
    /\ lpc = "get"
    /\ \E x \in 1..Len(labels) :
         /\ labels[x].id = lcall[1].id
         /\ label' = <<labels[x]>>
         /\ lab_log' = Append(lab_log, LEvent("get", labels[x].id, labels[x].name,
                                              labels[x].type, TRUE))
    /\ lpc' = "fetched"
    /\ UNCHANGED <<labels, lcall, resp, nlcalls>>

\* labels().get(...).execute() raises: no such label, or the request failed
GetFail ==
    /\ lpc = "get"
    /\ lab_log' = lab_log \o <<LEvent("get", lcall[1].id, <<>>, "", FALSE),
                               LEvent("raise", lcall[1].id, <<>>, "", FALSE)>>
    /\ LabelCallEnds
    /\ UNCHANGED <<labels, nlcalls>>

\* raise ValueError('Cannot delete system label ...')
SystemLabelRefused ==
    /\ lpc = "fetched"
    /\ IsSystem(label[1])
    /\ lab_log' = Append(lab_log, LEvent("raise", lcall[1].id, <<>>, "", FALSE))
    /\ LabelCallEnds
    /\ UNCHANGED <<labels, nlcalls>>

\* labels().delete(userId="me", id=id).execute() succeeds
DeleteOk ==
    /\ lpc = "fetched"
    /\ ~IsSystem(label[1])
    /\ labels' = WithoutId(labels, lcall[1].id)
    /\ lab_log' = lab_log \o <<LEvent("delete", lcall[1].id, <<>>, "", TRUE),
                               LEvent("deleted", lcall[1].id, label[1].name, "", TRUE)>>
    /\ LabelCallEnds
    /\ UNCHANGED nlcalls

\* labels().delete(...).execute() raises
DeleteFail ==
    /\ lpc = "fetched"
    /\ ~IsSystem(label[1])
    /\ lab_log' = lab_log \o <<LEvent("delete", lcall[1].id, <<>>, "", FALSE),
                               LEvent("raise", lcall[1].id, <<>>, "", FALSE)>>
    /\ LabelCallEnds
    /\ UNCHANGED <<labels, nlcalls>>

\* resp = labels().list(userId="me").execute()
ListOk ==
    /\ lpc = "list"
    /\ resp' = <<labels>>
    /\ lab_log' = Append(lab_log, LEvent("list", 0, <<>>, "", TRUE))
    /\ lpc' = "listed"
    /\ UNCHANGED <<labels, lcall, label, nlcalls>>

\* labels().list(...).execute() raises
ListFail ==
    /\ lpc = "list"
    /\ lab_log' = lab_log \o <<LEvent("list", 0, <<>>, "", FALSE),
                               LEvent("raise", 0, <<>>, "", FALSE)>>
    /\ LabelCallEnds
    /\ UNCHANGED <<labels, nlcalls>>

\* the search loop returns the first label with the name
Found ==
    /\ lpc = "listed"
    /\ FirstMatch(resp[1], lcall[1].name) # 0
    /\ LET l == resp[1][FirstMatch(resp[1], lcall[1].name)]
       IN  lab_log' = Append(lab_log, LEvent("found", l.id, l.name, l.type, TRUE))
    /\ LabelCallEnds
    /\ UNCHANGED <<labels, nlcalls>>

\* no label has the name: labels().create(userId="me", body=body).execute()
CreateOk ==
    /\ lpc = "listed"
    /\ FirstMatch(resp[1], lcall[1].name) = 0
    /\ LET l == Created(lcall[1].name)
       IN  /\ labels' = Append(labels, l)
           /\ lab_log' = lab_log \o <<LEvent("create", l.id, l.name, l.type, TRUE),
                                      LEvent("created", l.id, l.name, l.type, TRUE)>>
    /\ LabelCallEnds
    /\ UNCHANGED nlcalls

\* labels().create(...).execute() raises
CreateFail ==
    /\ lpc = "listed"
    /\ FirstMatch(resp[1], lcall[1].name) = 0
    /\ lab_log' = lab_log \o <<LEvent("create", 0, lcall[1].name, "", FALSE),
                               LEvent("raise", 0, <<>>, "", FALSE)>>
    /\ LabelCallEnds
    /\ UNCHANGED <<labels, nlcalls>>

LabelNext ==
    \/ \E id \in {0} \cup {labels[x].id : x \in 1..Len(labels)} :
          DeleteLabelCall(id) /\ UNCHANGED labelRest
    \/ \E name \in Names : GetOrCreateLabelCall(name) /\ UNCHANGED labelRest
    \/ LabelNoService /\ UNCHANGED labelRest
    \/ GetOk /\ UNCHANGED labelRest
    \/ GetFail /\ UNCHANGED labelRest
    \/ SystemLabelRefused /\ UNCHANGED labelRest
    \/ DeleteOk /\ UNCHANGED labelRest
    \/ DeleteFail /\ UNCHANGED labelRest
    \/ ListOk /\ UNCHANGED labelRest
    \/ ListFail /\ UNCHANGED labelRest
    \/ Found /\ UNCHANGED labelRest
    \/ CreateOk /\ UNCHANGED labelRest
    \/ CreateFail /\ UNCHANGED labelRest

LabelSpec == LabelInit /\ [][LabelNext]_allVars

-----------------------------------------------------------------------------
(* filter_ops.create_filter_from_template and filter_templates               *)

\* every variable outside create_filter_from_template
filterRest == <<vars, toolVars, serviceVars, labelVars, modifyVars>>

\* the keys of filter_templates.TEMPLATES
TEMPLATES == {"fromSender", "withSubject", "withAttachments", "largeEmails",
              "containingText", "mailingList"}

\* optional arguments: <<>> is None, <<v>> the value v
OptStr == {<<>>, <<"">>, <<"x">>}
OptInt == {<<>>, <<0>>, <<5>>}
OptBool == {<<>>, <<TRUE>>, <<FALSE>>}
OptList == {<<>>, <<<<>>>>, <<<<"L">>>>}

FilterArgs ==
    [template : TEMPLATES \cup {"other"},
     sender_email : OptStr, subject_text : OptStr, search_text : OptStr,
     list_identifier : OptStr, size_in_bytes : OptInt, label_ids : OptList,
     archive : OptBool, mark_as_read : OptBool, mark_important : OptBool]

\* `not x` for a str | None
NotStr(x) == IF x = <<>> THEN TRUE ELSE x[1] = ""

\* `not x` for an int | None
NotInt(x) == IF x = <<>> THEN TRUE ELSE x[1] = 0

\* `x or False` for a bool | None
OrFalse(x) == IF x = <<>> THEN FALSE ELSE x[1]

\* `archive if archive is not None else True`
IfNotNoneElseTrue(x) == IF x = <<>> THEN TRUE ELSE x[1]

\* `label_ids or []`
OrEmpty(x) == IF x = <<>> THEN <<>> ELSE x[1]

\* filter_templates.from_sender
from_sender(sender_email, label_ids, archive) ==
    [criteria |-> [from |-> sender_email],
     action |-> [addLabelIds |-> OrEmpty(label_ids),
                 removeLabelIds |-> IF archive THEN <<"INBOX">> ELSE <<>>]]

\* filter_templates.with_subject
with_subject(subject_text, label_ids, mark_as_read) ==
    [criteria |-> [subject |-> subject_text],
     action |-> [addLabelIds |-> OrEmpty(label_ids),
                 removeLabelIds |-> IF mark_as_read THEN <<"UNREAD">> ELSE <<>>]]

\* filter_templates.with_attachments
with_attachments(label_ids) ==
    [criteria |-> [hasAttachment |-> TRUE],
     action |-> [addLabelIds |-> OrEmpty(label_ids)]]

\* filter_templates.large_emails
large_emails(size_in_bytes, label_ids) ==
    [criteria |-> [size |-> size_in_bytes, sizeComparison |-> "larger"],
     action |-> [addLabelIds |-> OrEmpty(label_ids)]]

\* filter_templates.containing_text
containing_text(search_text, label_ids, mark_important) ==
    [criteria |-> [query |-> <<"\"", search_text, "\"">>],
     action |-> [addLabelIds |->
                    IF mark_important THEN Append(OrEmpty(label_ids), "IMPORTANT")
                    ELSE OrEmpty(label_ids)]]

\* filter_templates.mailing_list
mailing_list(list_identifier, label_ids, archive) ==
    [criteria |-> [query |-> <<"list:", list_identifier, " OR subject:[",
                               list_identifier, "]">>],
     action |-> [addLabelIds |-> OrEmpty(label_ids),
                 removeLabelIds |-> IF archive THEN <<"INBOX">> ELSE <<>>]]

\* the required parameter is rejected only when it is None
MissingParam_NoneOnly(a) ==
    CASE a.template = "fromSender" -> a.sender_email = <<>>
      [] a.template = "withSubject" -> a.subject_text = <<>>
      [] a.template = "largeEmails" -> a.size_in_bytes = <<>>
      [] a.template = "containingText" -> a.search_text = <<>>
      [] a.template = "mailingList" -> a.list_identifier = <<>>
      [] OTHER -> FALSE

\* the `if not <param>:` test of the chosen template's branch
MissingParam(a) ==
    CASE a.template = "fromSender" -> NotStr(a.sender_email)
      [] a.template = "withSubject" -> NotStr(a.subject_text)
      [] a.template = "largeEmails" -> NotInt(a.size_in_bytes)
      [] a.template = "containingText" -> NotStr(a.search_text)
      [] a.template = "mailingList" -> NotStr(a.list_identifier)
      [] OTHER -> FALSE

\* config = template_fn(...) of the chosen template's branch
Config(a) ==
    CASE a.template = "fromSender" ->
            from_sender(a.sender_email[1], a.label_ids, OrFalse(a.archive))
      [] a.template = "withSubject" ->
            with_subject(a.subject_text[1], a.label_ids, OrFalse(a.mark_as_read))
      [] a.template = "withAttachments" -> with_attachments(a.label_ids)
      [] a.template = "largeEmails" -> large_emails(a.size_in_bytes[1], a.label_ids)
      [] a.template = "containingText" ->
            containing_text(a.search_text[1], a.label_ids, OrFalse(a.mark_important))
      [] a.template = "mailingList" ->
            mailing_list(a.list_identifier[1], a.label_ids, IfNotNoneElseTrue(a.archive))

FEvent(ev, ok, val) == [ev |-> ev, ok |-> ok, val |-> val]

FilterInit ==
    /\ fargs \in {<<a>> : a \in FilterArgs}
    /\ fpc = "start"
    /\ config = <<>>
    /\ flt_log = <<>>
    /\ BatchIdle
    /\ ToolIdle
    /\ ServiceIdle
    /\ LabelIdle
    /\ ModifyIdle

\* TEMPLATES.get(template) is None: raise ValueError("Unknown template ...")
FltUnknownTemplate ==
    /\ fpc = "start"
    /\ fargs[1].template \notin TEMPLATES
    /\ flt_log' = Append(flt_log, FEvent("raise", FALSE, <<"Unknown template">>))
    /\ fpc' = "raised"
    /\ UNCHANGED <<fargs, config>>

\* raise ValueError("... is required for ... template")
FltMissingParam ==
    /\ fpc = "start"
    /\ fargs[1].template \in TEMPLATES
    /\ MissingParam(fargs[1])
    /\ flt_log' = Append(flt_log, FEvent("raise", FALSE, <<"is required">>))
    /\ fpc' = "raised"
    /\ UNCHANGED <<fargs, config>>

\* config = template_fn(...)
FltConfig ==
    /\ fpc = "start"
    /\ fargs[1].template \in TEMPLATES
    /\ ~MissingParam(fargs[1])
    /\ config' = <<Config(fargs[1])>>
    /\ fpc' = "validated"
    /\ UNCHANGED <<fargs, flt_log>>

\* gmail = get_gmail_service()
FltServiceOk ==
    /\ fpc = "validated"
    /\ flt_log' = Append(flt_log, FEvent("get_gmail_service", TRUE, <<>>))
    /\ fpc' = "create"
    /\ UNCHANGED <<fargs, config>>

\* get_gmail_service() raises
FltServiceFail ==
    /\ fpc = "validated"
    /\ flt_log' = flt_log \o <<FEvent("get_gmail_service", FALSE, <<>>),
                               FEvent("raise", FALSE, <<"RuntimeError">>)>>
    /\ fpc' = "raised"
    /\ UNCHANGED <<fargs, config>>

\* filters().create(userId="me", body=config).execute() and the return
FltCreateOk ==
    /\ fpc = "create"
    /\ flt_log' = flt_log \o <<FEvent("create", TRUE, config),
                               FEvent("return", TRUE, <<fargs[1].template>>)>>
    /\ fpc' = "returned"
    /\ UNCHANGED <<fargs, config>>

\* filters().create(...).execute() raises
FltCreateFail ==
    /\ fpc = "create"
    /\ flt_log' = flt_log \o <<FEvent("create", FALSE, config),
                               FEvent("raise", FALSE, <<"HttpError">>)>>
    /\ fpc' = "raised"
    /\ UNCHANGED <<fargs, config>>

FilterNext ==
    \/ FltUnknownTemplate /\ UNCHANGED filterRest
    \/ FltMissingParam /\ UNCHANGED filterRest
    \/ FltConfig /\ UNCHANGED filterRest
    \/ FltServiceOk /\ UNCHANGED filterRest
    \/ FltServiceFail /\ UNCHANGED filterRest
    \/ FltCreateOk /\ UNCHANGED filterRest
    \/ FltCreateFail /\ UNCHANGED filterRest

FilterSpec == FilterInit /\ [][FilterNext]_allVars

-----------------------------------------------------------------------------
(* email_ops.modify_email                                                    *)

\* every variable outside modify_email
modifyRest == <<vars, toolVars, serviceVars, labelVars, filterVars>>

\* a list[str] | None of label ids: <<>> is None, <<l>> the list l
LabelLists == {<<>>, <<<<>>>>, <<<<"A">>>>, <<<<"B">>>>, <<<<"A", "B">>>>}

ModifyArgs ==
    [message_id : {"m"}, label_ids : LabelLists, add_label_ids : LabelLists,
     remove_label_ids : LabelLists]

\* `if x:` for a list | None
Truthy(x) == IF x = <<>> THEN FALSE ELSE x[1] # <<>>

\* body[key] = val
SetKey(b, key, val) ==
    [x \in DOMAIN b \cup {key} |-> IF x = key THEN val ELSE b[x]]

\* `if x: body[key] = x`
SetIf(b, key, x) == IF Truthy(x) THEN SetKey(b, key, x[1]) ELSE b

\* the three assignments to body, in the order of the code
Body(a) ==
    SetIf(SetIf(SetIf(<<>>, "addLabelIds", a.label_ids),
                "addLabelIds", a.add_label_ids),
          "removeLabelIds", a.remove_label_ids)

MEvent(ev, ok, val) == [ev |-> ev, ok |-> ok, val |-> val]

ModifyInit ==
    /\ margs \in {<<a>> : a \in ModifyArgs}
    /\ mpc = "start"
    /\ body = <<>>
    /\ mod_log = <<>>
    /\ BatchIdle
    /\ ToolIdle
    /\ ServiceIdle
    /\ LabelIdle
    /\ FilterIdle

\* `gmail = get_gmail_service()` raises
MdfNoService ==
    /\ mpc = "start"
    /\ mod_log' = Append(mod_log, MEvent("raise", FALSE, <<>>))
    /\ mpc' = "raised"
    /\ UNCHANGED <<margs, body>>

\* get_gmail_service() returns; body is built
MdfBody ==
    /\ mpc = "start"
    /\ body' = <<Body(margs[1])>>
    /\ mpc' = "modify"
    /\ UNCHANGED <<margs, mod_log>>

\* messages().modify(userId="me", id=message_id, body=body).execute() and the return
MdfModifyOk ==
    /\ mpc = "modify"
    /\ mod_log' = mod_log \o <<MEvent("modify", TRUE, body), MEvent("return", TRUE, <<>>)>>
    /\ mpc' = "returned"
    /\ UNCHANGED <<margs, body>>

\* messages().modify(...).execute() raises
MdfModifyFail ==
    /\ mpc = "modify"
    /\ mod_log' = mod_log \o <<MEvent("modify", FALSE, body), MEvent("raise", FALSE, <<>>)>>
    /\ mpc' = "raised"
    /\ UNCHANGED <<margs, body>>

ModifyNext ==
    \/ MdfNoService /\ UNCHANGED modifyRest
    \/ MdfBody /\ UNCHANGED modifyRest
    \/ MdfModifyOk /\ UNCHANGED modifyRest
    \/ MdfModifyFail /\ UNCHANGED modifyRest

ModifySpec == ModifyInit /\ [][ModifyNext]_allVars

-----------------------------------------------------------------------------
(* Vocabulary of the properties *)

N == Len(items)

CeilDiv(a, b) == (a + b - 1) \div b

Ok(c) == c.exc = <<>>

IsBulk(c) == c.kind = "bulk"

IsSingle(c) == c.kind = "single"

\* 1-based positions of items that the call c was given
Positions(c) == (c.lo + 1)..(c.lo + Len(c.arg))

LogIdx == 1..Len(log)

\* positions whose result records the finished calls of l returned, in order
RECURSIVE SuccPos(_)
SuccPos(l) ==
    IF l = <<>> THEN <<>>
    ELSE [x \in 1..Len(Head(l).res) |-> Head(l).lo + x] \o SuccPos(Tail(l))

\* positions of the singleton calls of l that raised, in order
RECURSIVE FailPos(_)
FailPos(l) ==
    IF l = <<>> THEN <<>>
    ELSE (IF IsSingle(Head(l)) /\ ~Ok(Head(l)) THEN <<Head(l).lo + 1>> ELSE <<>>)
         \o FailPos(Tail(l))

\* the exceptions of the singleton calls of l that raised, in order
RECURSIVE FailExc(_)
FailExc(l) ==
    IF l = <<>> THEN <<>>
    ELSE (IF IsSingle(Head(l)) /\ ~Ok(Head(l)) THEN Head(l).exc ELSE <<>>)
         \o FailExc(Tail(l))

Occurrences(seq, v) == Cardinality({x \in 1..Len(seq) : seq[x] = v})

-----------------------------------------------------------------------------
\* C1: when process_batches has returned and process_fn returns one result
\* per item whenever it succeeds, len(successes) + len(failures) = len(items)
\* and every input position is accounted for exactly once: by one success
\* record (the result of the item at that position) or by one failure pair
\* (carrying that item), never both and never neither.
C1_EveryItemAccountedOnce ==
    (pc = "done" /\ fn_total) =>
        LET sp == SuccPos(log)
            fp == FailPos(log)
        IN  /\ Len(successes) + Len(failures) = N
            /\ Len(sp) = Len(successes)
            /\ Len(fp) = Len(failures)
            /\ \A x \in 1..Len(sp) : successes[x] = Result(items[sp[x]])
            /\ \A x \in 1..Len(fp) : failures[x][1] = items[fp[x]]
            /\ \A p \in 1..N : Occurrences(sp, p) + Occurrences(fp, p) = 1

C1_Witness ==
    /\ pc = "done" /\ fn_total
    /\ N = 5 /\ batch_size = 2
    /\ Len(successes) = 3 /\ Len(failures) = 2

\* C2: when every chunk-level call succeeded, process_fn was invoked exactly
\* ceil(N / C) times, none of the calls a singleton fallback, and failures is
\* empty; for N = 0 process_fn is never invoked and both lists are empty.
C2_AllChunksSucceed ==
    pc = "done" =>
        /\ (\A x \in LogIdx : IsBulk(log[x]) => Ok(log[x])) =>
               /\ Len(log) = CeilDiv(N, batch_size)
               /\ \A x \in LogIdx : IsBulk(log[x])
               /\ failures = <<>>
        /\ N = 0 => (log = <<>> /\ successes = <<>> /\ failures = <<>>)

C2_Witness ==
    /\ pc = "done"
    /\ N = 5 /\ batch_size = 2
    /\ Len(log) = 3
    /\ \A x \in LogIdx : Ok(log[x])

\* the calls (finished or in progress) that were given position p
CallsOn(p, kind) ==
    Cardinality({x \in LogIdx : log[x].kind = kind /\ p \in Positions(log[x])})
    + Cardinality({x \in 1..Len(inflight) :
                     inflight[x].kind = kind /\ p \in Positions(inflight[x])})

\* C3: a failed chunk-level call with K items is followed by exactly K
\* singleton calls, one per item of the chunk, and by nothing else for that
\* chunk; no position is ever passed to process_fn more than once inside a
\* chunk and once as a singleton.
C3_OneFallbackPerItem ==
    /\ \A x \in LogIdx :
         IsBulk(log[x]) /\ ~Ok(log[x]) =>
            LET K == Len(log[x].arg)
            IN  /\ \A j \in 1..K :
                     x + j <= Len(log) =>
                        /\ IsSingle(log[x + j])
                        /\ log[x + j].arg = <<log[x].arg[j]>>
                        /\ log[x + j].lo = log[x].lo + j - 1
                /\ x + K + 1 <= Len(log) => IsBulk(log[x + K + 1])
                /\ pc = "done" => x + K <= Len(log)
    /\ \A x \in LogIdx :
         IsBulk(log[x]) /\ Ok(log[x]) /\ x < Len(log) => IsBulk(log[x + 1])
    /\ \A p \in 1..N : CallsOn(p, "bulk") <= 1 /\ CallsOn(p, "single") <= 1

C3_Witness ==
    /\ pc = "done"
    /\ N = 3 /\ batch_size = 2
    /\ Len(log) = 5
    /\ ~Ok(log[1]) /\ ~Ok(log[4]) /\ Len(log[4].arg) = 1

\* C4: failures is, in order, one pair per singleton call that raised: the
\* item of that call and the message of the exception it raised; a position
\* is in failures iff the bulk call of its chunk raised and its singleton call
\* raised.  When every call raised, successes is empty and failures holds all
\* N items in input order.
C4_FailuresAreFailedSingletons ==
    LET fp == FailPos(log)
        fe == FailExc(log)
    IN  /\ Len(failures) = Len(fp)
        /\ \A x \in 1..Len(fp) : failures[x] = <<items[fp[x]], fe[x].args[1]>>
        /\ \A p \in 1..N :
             (\E x \in 1..Len(fp) : fp[x] = p)
             <=> /\ \E x \in LogIdx :
                      IsBulk(log[x]) /\ ~Ok(log[x]) /\ p \in Positions(log[x])
                 /\ \E y \in LogIdx :
                      IsSingle(log[y]) /\ ~Ok(log[y]) /\ p \in Positions(log[y])
        /\ (pc = "done" /\ \A x \in LogIdx : ~Ok(log[x])) =>
              /\ successes = <<>>
              /\ Len(failures) = N
              /\ \A p \in 1..N : failures[p][1] = items[p] /\ failures[p][2] \in Msgs

C4_Witness ==
    /\ pc = "done"
    /\ N = 3 /\ batch_size = 2
    /\ \A x \in LogIdx : ~Ok(log[x])
    /\ Len(failures) = 3
    /\ failures[1][2] # failures[2][2]

BulkLog == SelectSeq(log, IsBulk)

\* C5: whatever the outcome of the chunks processed so far, the loop has
\* advanced by exactly one chunk per bulk call and the next chunk is
\* submitted as a bulk call; at return every chunk of the input has had its
\* bulk call.  items = [1,2,3,4,5], batch_size = 2, chunks [1,2] and [3,4]
\* succeed, [5] raises as a chunk and as a singleton: successes =
\* [result(1), ..., result(4)], failures = [(5, message)].
C5_NoShortCircuit ==
    /\ pc = "for" => i = batch_size * Len(BulkLog)
    /\ (pc = "for" /\ i < N) => ENABLED ForNext
    /\ pc = "done" =>
          /\ Len(BulkLog) = CeilDiv(N, batch_size)
          /\ \A b \in 1..Len(BulkLog) : BulkLog[b].lo = (b - 1) * batch_size
    /\ ( /\ pc = "done" /\ fn_total
         /\ items = <<1, 2, 3, 4, 5>> /\ batch_size = 2
         /\ Len(log) = 4
         /\ Ok(log[1]) /\ Ok(log[2]) /\ ~Ok(log[3]) /\ ~Ok(log[4]) )
       => /\ successes = <<Result(1), Result(2), Result(3), Result(4)>>
          /\ failures = <<<<5, log[4].exc[1].args[1]>>>>
          /\ ret = <<<<successes, failures>>>>

C5_Witness ==
    /\ pc = "done" /\ fn_total
    /\ items = <<1, 2, 3, 4, 5>> /\ batch_size = 2
    /\ Len(log) = 4
    /\ Ok(log[1]) /\ Ok(log[2]) /\ ~Ok(log[3]) /\ ~Ok(log[4])
    /\ log[3].arg = <<5>> /\ log[4].arg = <<5>>

\* C6: every run of process_batches ends by returning (successes, failures),
\* whatever calls of process_fn raise, and no exception of process_fn ever
\* leaves process_batches.
C6_AlwaysReturns ==
    /\ [](pc # "raised")
    /\ <>(pc = "done" /\ ret = <<<<successes, failures>>>>)

C6_Witness ==
    /\ pc = "done"
    /\ N = 5 /\ batch_size = 2
    /\ Len(log) = 8
    /\ \A x \in LogIdx : ~Ok(log[x])
    /\ ret = <<<<<<>>, failures>>>>

\* the result records the finished calls of l returned, in the order returned
RECURSIVE Returned(_)
Returned(l) == IF l = <<>> THEN <<>> ELSE Head(l).res \o Returned(Tail(l))

StrictlyIncreasing(seq) ==
    \A x, y \in 1..Len(seq) : x < y => seq[x] < seq[y]

\* C7: successes holds the returned result records call after call, each
\* call's records in the order it returned them, so the success records
\* (bulk path and fallback path alike) are in the submission order of their
\* items; the failure pairs are in the submission order of their items.
C7_OrderPreserved ==
    LET sp == SuccPos(log)
        fp == FailPos(log)
    IN  /\ successes = Returned(log)
        /\ StrictlyIncreasing(sp)
        /\ \A x \in 1..Len(successes) : successes[x] = Result(items[sp[x]])
        /\ StrictlyIncreasing(fp)
        /\ Len(failures) = Len(fp)
        /\ \A x \in 1..Len(failures) : failures[x][1] = items[fp[x]]

C7_Witness ==
    /\ pc = "done" /\ fn_total
    /\ items = <<1, 2, 3, 4, 5>> /\ batch_size = 2
    /\ successes = <<Result(1), Result(3), Result(4), Result(5)>>
    /\ Len(failures) = 1
    /\ Len(log) = 6

\* C8: the exception of a failed bulk call is dropped: it is not raised to
\* the caller and it is not what failures reports.  Every message in
\* failures is the message of the singleton call of that item, and an item
\* whose bulk call raised and whose singleton call returned has its result in
\* successes and no pair in failures.
C8_ChunkErrorAbsorbed ==
    LET fp == FailPos(log)
        fe == FailExc(log)
        sp == SuccPos(log)
    IN  /\ pc # "raised"
        /\ Len(failures) = Len(fe)
        /\ \A x \in 1..Len(failures) : failures[x][2] = fe[x].args[1]
        /\ \A x, y \in LogIdx :
             ( /\ IsBulk(log[x]) /\ ~Ok(log[x])
               /\ IsSingle(log[y]) /\ Ok(log[y])
               /\ log[y].lo + 1 \in Positions(log[x]) )
             => /\ \A z \in 1..Len(fp) : fp[z] # log[y].lo + 1
                /\ fn_total => \E z \in 1..Len(sp) :
                      /\ sp[z] = log[y].lo + 1
                      /\ successes[z] = Result(log[y].arg[1])
        /\ pc = "done" => ret = <<<<successes, failures>>>>

C8_Witness ==
    /\ pc = "done" /\ fn_total
    /\ N = 2 /\ batch_size = 2
    /\ Len(log) = 3
    /\ ~Ok(log[1]) /\ Ok(log[2]) /\ ~Ok(log[3])
    /\ log[1].exc # log[3].exc
    /\ failures = <<<<items[2], log[3].exc[1].args[1]>>>>

\* the bulk calls started so far: the finished ones, then the one in progress
BulkStarted ==
    SelectSeq(log \o inflight, IsBulk)

RECURSIVE ConcatArgs(_)
ConcatArgs(l) == IF l = <<>> THEN <<>> ELSE Head(l).arg \o ConcatArgs(Tail(l))

\* C9: the chunks given to the bulk calls are contiguous and in input order:
\* their concatenation is a prefix of items, and all of items at return;
\* every chunk has between 1 and batch_size items, every chunk but the last
\* has batch_size items, and no chunk is submitted as a whole twice.
C9_ContiguousChunks ==
    LET bs == BulkStarted
        cat == ConcatArgs(bs)
    IN  /\ Len(cat) <= N
        /\ cat = SubSeq(items, 1, Len(cat))
        /\ pc = "done" => cat = items
        /\ \A b \in 1..Len(bs) :
             /\ Len(bs[b].arg) >= 1
             /\ Len(bs[b].arg) <= batch_size
             /\ b < Len(bs) => Len(bs[b].arg) = batch_size
             /\ bs[b].lo = (b - 1) * batch_size
        /\ \A a, b \in 1..Len(bs) : a # b => bs[a].lo # bs[b].lo
        /\ \A b \in 1..Len(log) :
             IsBulk(log[b]) => log[b].arg = Slice(items, log[b].lo, log[b].lo + batch_size)

C9_Witness ==
    /\ pc = "done"
    /\ N = 4 /\ batch_size = 3
    /\ Len(BulkStarted) = 2
    /\ Len(BulkStarted[2].arg) = 1

\* position p has been settled by finished calls
Settled(p) ==
    \/ \E x \in LogIdx : IsBulk(log[x]) /\ Ok(log[x]) /\ p \in Positions(log[x])
    \/ /\ \E x \in LogIdx : IsBulk(log[x]) /\ ~Ok(log[x]) /\ p \in Positions(log[x])
       /\ \E y \in LogIdx : IsSingle(log[y]) /\ p \in Positions(log[y])

\* C10: at most one call of process_fn is in progress; a bulk call starts
\* only when every earlier chunk's bulk call and all its singleton calls have
\* finished; a singleton call starts only when the bulk call of its chunk
\* has raised and the singleton calls of the items before it in the chunk
\* have finished; calls finish in submission order.
C10_StrictlySequential ==
    /\ Len(inflight) <= 1
    /\ (pc \in {"bulk", "single"}) <=> (Len(inflight) = 1)
    /\ \A c \in {inflight[x] : x \in 1..Len(inflight)} :
         /\ \A p \in 1..c.lo : Settled(p) \/ (IsSingle(c) /\ p > i)
         /\ IsSingle(c) =>
               /\ log # <<>>
               /\ \E x \in LogIdx :
                    /\ IsBulk(log[x]) /\ ~Ok(log[x]) /\ log[x].lo = i
                    /\ c.lo + 1 \in Positions(log[x])
                    /\ \A q \in (i + 1)..c.lo : \E y \in (x + 1)..Len(log) :
                          IsSingle(log[y]) /\ log[y].lo + 1 = q
         /\ \A x \in LogIdx : log[x].lo <= c.lo
    /\ \A x, y \in LogIdx :
         x < y => /\ log[x].lo <= log[y].lo
                  /\ (log[x].kind = log[y].kind \/ IsSingle(log[x]))
                       => log[x].lo < log[y].lo

C10_Witness ==
    /\ pc = "single"
    /\ N = 4 /\ batch_size = 2
    /\ Len(log) = 5
    /\ inflight = <<Call("single", 3, <<items[4]>>)>>

-----------------------------------------------------------------------------
ReqIdx == 1..Len(requests)

\* the requests sent for position p, and those of them Gmail executed
RequestsOn(p) == {r \in ReqIdx : requests[r].pos = p}

AppliedOn(p) == {r \in RequestsOn(p) : requests[r].ok}

\* C11: a failed chunk-level call of the process function of a batch tool
\* has applied its Gmail request to no message of the chunk.
C11_BulkCallAtomic ==
    \A x \in LogIdx :
        (IsBulk(log[x]) /\ ~Ok(log[x])) =>
            \A r \in ReqIdx : requests[r].call = x => ~requests[r].ok

\* C12: whatever batch_size the tool is given (None, 0, negative, positive),
\* its report accounts for every message id; None and 0 become 50, and a run
\* over a non-empty list uses a positive chunk size and sends requests.
C12_EveryBatchSizeAccounts ==
    pc = "reported" =>
        /\ report[1].processed + report[1].failed = N
        /\ batch_size_arg \in {<<>>, <<0>>} => batch_size = DefaultBatchSize
        /\ N > 0 => (batch_size > 0 /\ requests # <<>>)

\* the 1-based offset in the chunk of log[x] of the message whose request
\* failed in that call
FirstFailing(x) ==
    Cardinality({r \in ReqIdx : requests[r].call = x /\ requests[r].ok}) + 1

\* C15 as stated: in a chunk whose bulk call failed at offset j, the messages
\* before j have exactly two successful requests, message j two requests,
\* the messages after j exactly one; no message has more than two requests
\* and a message of a chunk that succeeded has exactly one.
C15_TwoSuccessfulBeforeFailure ==
    /\ \A p \in 1..N : Cardinality(RequestsOn(p)) <= 2
    /\ pc = "reported" =>
         \A x \in LogIdx : IsBulk(log[x]) =>
            \A p \in Positions(log[x]) :
                LET off == p - log[x].lo
                    j == FirstFailing(x)
                IN  IF Ok(log[x])
                      THEN Cardinality(RequestsOn(p)) = 1
                      ELSE /\ off < j =>
                                /\ Cardinality(RequestsOn(p)) = 2
                                /\ Cardinality(AppliedOn(p)) = 2
                           /\ off = j => Cardinality(RequestsOn(p)) = 2
                           /\ off > j => Cardinality(RequestsOn(p)) = 1

\* C15 as amended: the messages before j have exactly two requests, the one
\* of the bulk pass successful.
C15_TwoRequestsBeforeFailure ==
    /\ \A p \in 1..N : Cardinality(RequestsOn(p)) <= 2
    /\ pc = "reported" =>
         \A x \in LogIdx : IsBulk(log[x]) =>
            \A p \in Positions(log[x]) :
                LET off == p - log[x].lo
                    j == FirstFailing(x)
                IN  IF Ok(log[x])
                      THEN /\ Cardinality(RequestsOn(p)) = 1
                           /\ Cardinality(AppliedOn(p)) = 1
                      ELSE /\ off < j =>
                                /\ Cardinality(RequestsOn(p)) = 2
                                /\ \E r \in AppliedOn(p) : requests[r].call = x
                                /\ \E r \in RequestsOn(p) :
                                      requests[r].kind = "single"
                           /\ off = j =>
                                /\ Cardinality(RequestsOn(p)) = 2
                                /\ \E r \in RequestsOn(p) :
                                      requests[r].call = x /\ ~requests[r].ok
                           /\ off > j =>
                                /\ Cardinality(RequestsOn(p)) = 1
                                /\ \A r \in RequestsOn(p) :
                                      requests[r].kind = "single"

C15_Witness ==
    /\ pc = "reported"
    /\ N = 3 /\ batch_size = 3
    /\ Len(requests) = 5
    /\ requests[1].ok /\ ~requests[2].ok /\ requests[3].ok
    /\ Cardinality(AppliedOn(1)) = 2

-----------------------------------------------------------------------------
SvcIdx == 1..Len(svc_log)

\* C13: the service is built at most once; once a call has returned a
\* service, every later call only returns that same object (no read of the
\* credentials file, no refresh, no build); a call that raises leaves the
\* cache unset, and the call after it starts the initialisation again.
C13_LazySingleton ==
    /\ Cardinality({x \in SvcIdx : svc_log[x].ev = "build"}) <= 1
    /\ (_service # <<>>) <=> (\E x \in SvcIdx : svc_log[x].ev = "build")
    /\ \A x \in SvcIdx : svc_log[x].ev = "build" => svc_log[x].val = _service
    /\ \A x, y \in SvcIdx :
         (svc_log[x].ev = "return" /\ svc_log[y].call > svc_log[x].call)
         => (svc_log[y].ev = "return" /\ svc_log[y].val = svc_log[x].val)
    /\ \A x \in SvcIdx :
         svc_log[x].ev = "raise" =>
            /\ \A y \in 1..x : svc_log[y].ev # "build"
            /\ x = Len(svc_log) => _service = <<>>
            /\ x < Len(svc_log) =>
                  /\ svc_log[x + 1].call = svc_log[x].call + 1
                  /\ svc_log[x + 1].ev \in {"read", "raise"}

C13_Witness ==
    /\ ncalls = 3 /\ spc = "idle"
    /\ Len(svc_log) = 6
    /\ svc_log[2].ev = "raise"
    /\ svc_log[4].ev = "build"
    /\ svc_log[5].ev = "return" /\ svc_log[5].call = 2
    /\ svc_log[6].ev = "return" /\ svc_log[6].call = 3
    /\ svc_log[6].val = _service /\ _service # <<>>

\* what get_gmail_service has done by itself to the credentials file
C14_State ==
    /\ \A x \in SvcIdx :
         (svc_log[x].ev = "read" /\ x < Len(svc_log)) =>
            LET c == svc_log[x].val[1]
            IN  (svc_log[x + 1].ev = "refresh")
                <=> (c.expiry = "past" /\ c.refresh_token # <<>>)
    /\ \A x \in SvcIdx :
         svc_log[x].ev = "refresh" => (x > 1 /\ svc_log[x - 1].ev = "read")
    /\ \A x \in SvcIdx :
         (svc_log[x].ev = "refresh" /\ svc_log[x].val # <<>> /\ x < Len(svc_log)) =>
            LET c == svc_log[x].val[1]
            IN  /\ svc_log[x + 1].ev = "write"
                /\ svc_log[x + 1].val[1].token = c.token
                /\ svc_log[x + 1].val[1].refresh_token = c.refresh_token
                /\ svc_log[x + 1].val[1].expiry = "future"
                /\ c.token # svc_log[x - 1].val[1].token
    /\ \A x \in SvcIdx :
         svc_log[x].ev = "build" =>
            /\ \A y \in SvcIdx : y > x => svc_log[y].ev = "return"
            /\ svc_log[x - 1].ev = "read" \/ svc_log[x - 1].ev = "write"
    /\ \A x \in SvcIdx :
         svc_log[x].ev = "write" =>
            (svc_log[x - 1].ev = "refresh" /\ svc_log[x - 1].val # <<>>)
    /\ (spc = "build" /\ svc_log[Len(svc_log)].ev = "write") =>
            credentials_file = svc_log[Len(svc_log)].val

\* C14: during initialisation the token is refreshed iff the loaded
\* credential is expired and has a refresh token; a refreshed credential is
\* written to the credentials file before the service is built and cached;
\* without a refresh the call leaves the file as it is; once the service is
\* cached no call refreshes or rewrites the credentials.
C14_RefreshOnExpiry ==
    /\ []C14_State
    /\ [][ (credentials_file' # credentials_file /\ ~TokenExpires) =>
             /\ spc = "refreshed" /\ _service = <<>>
             /\ credentials_file'[1].token = creds[1].token
             /\ svc_log[Len(svc_log)].ev = "refresh" ]_allVars

C14_Witness ==
    /\ _service # <<>> /\ spc = "idle"
    /\ \E x \in SvcIdx : svc_log[x].ev = "write"
    /\ \E x \in SvcIdx : svc_log[x].ev = "return" /\ svc_log[x].call = 3
    /\ credentials_file[1].token = 1 /\ credentials_file[1].expiry = "past"

-----------------------------------------------------------------------------
LabIdx == 1..Len(lab_log)

\* C16: delete_label never deletes a system label: a delete request is
\* issued only right after a successful fetch, in the same call, of the same
\* label with a type other than system; a fetch that shows type system is
\* followed by an error with no delete request, and the system label stays
\* in the account.
C16_SystemLabelNeverDeleted ==
    /\ \A x \in LabIdx :
         lab_log[x].ev = "delete" =>
            /\ x > 1
            /\ lab_log[x - 1].ev = "get" /\ lab_log[x - 1].ok
            /\ lab_log[x - 1].call = lab_log[x].call
            /\ lab_log[x - 1].id = lab_log[x].id
            /\ lab_log[x - 1].type # "system"
    /\ \A x \in LabIdx :
         (lab_log[x].ev = "get" /\ lab_log[x].ok /\ lab_log[x].type = "system"
            /\ x < Len(lab_log))
         => (lab_log[x + 1].ev = "raise" /\ lab_log[x + 1].call = lab_log[x].call)
    /\ \A x \in LabIdx :
         (lab_log[x].ev = "get" /\ ~lab_log[x].ok) => lab_log[x + 1].ev = "raise"
    /\ \E x \in 1..Len(labels) : labels[x] = SystemLabel
    /\ (lpc = "idle" /\ lab_log # <<>> /\ lab_log[Len(lab_log)].ev = "raise"
          /\ lab_log[Len(lab_log) - 1].type = "system"
          /\ \A x \in LabIdx : ~(lab_log[x].ev \in {"delete", "create"} /\ lab_log[x].ok))
       => labels \in {<<SystemLabel>>, <<SystemLabel, UserLabel>>}

C16_Witness ==
    /\ lpc = "idle"
    /\ Len(lab_log) = 3
    /\ lab_log[1].ev = "delete_label" /\ lab_log[1].id = SystemLabel.id
    /\ lab_log[2].ev = "get" /\ lab_log[2].ok /\ lab_log[2].type = "system"
    /\ lab_log[3].ev = "raise"
    /\ labels = <<SystemLabel, UserLabel>>

\* the label tools' requests and outcomes added by one step
LabNew == SubSeq(lab_log', Len(lab_log) + 1, Len(lab_log'))

\* no successful delete of label id lies between events x and y
NotDeletedBetween(id, x, y) ==
    \A z \in LabIdx : (x < z /\ z < y) => ~(lab_log[z].ev = "deleted" /\ lab_log[z].id = id)

C17_State ==
    /\ \A x, y \in LabIdx :
         (/\ x < y
          /\ lab_log[x].ev = "created"
          /\ lab_log[y].ev \in {"found", "created"}
          /\ Lower(lab_log[y].name) = Lower(lab_log[x].name)
          /\ NotDeletedBetween(lab_log[x].id, x, y))
         => (lab_log[y].ev = "found" /\ lab_log[y].id = lab_log[x].id)
    /\ \A x \in LabIdx :
         lab_log[x].ev = "create" => (x > 1 /\ lab_log[x - 1].ev = "list" /\ lab_log[x - 1].ok)

\* C17: get_or_create_label issues a create request iff no existing label
\* has the requested name ignoring case; with a match it returns the first
\* matching label and creates nothing; so of sequential calls whose names
\* differ only in case at most one creates a label, and the later ones
\* return that label.
C17_CreateIffNoMatch ==
    /\ []C17_State
    /\ [][ LET hits == {x \in 1..Len(labels) :
                          lpc = "listed" /\ Lower(labels[x].name) = Lower(lcall[1].name)}
               issued == \E x \in 1..Len(LabNew) : LabNew[x].ev = "create"
           IN  /\ issued => lpc = "listed"
               /\ (lpc = "listed" /\ lab_log' # lab_log) =>
                     /\ issued <=> hits = {}
                     /\ hits # {} =>
                          /\ labels' = labels
                          /\ Len(LabNew) = 1 /\ LabNew[1].ev = "found"
                          /\ LabNew[1].id = labels[CHOOSE x \in hits : \A y \in hits : x <= y].id
         ]_allVars

C17_Witness ==
    /\ lpc = "idle"
    /\ Len(lab_log) = 7
    /\ lab_log[4].ev = "created" /\ lab_log[4].name = <<"a", "b">>
    /\ lab_log[7].ev = "found" /\ lab_log[5].name = <<"A", "B">>
    /\ lab_log[7].id = lab_log[4].id
    /\ Len(labels) = 2

-----------------------------------------------------------------------------
FltIdx == 1..Len(flt_log)

\* the template is known and the parameter it requires is given and not empty
FltValid ==
    LET a == fargs[1]
    IN  \/ a.template = "fromSender" /\ a.sender_email \notin {<<>>, <<"">>}
        \/ a.template = "withSubject" /\ a.subject_text \notin {<<>>, <<"">>}
        \/ a.template = "withAttachments"
        \/ a.template = "largeEmails" /\ a.size_in_bytes \notin {<<>>, <<0>>}
        \/ a.template = "containingText" /\ a.search_text \notin {<<>>, <<"">>}
        \/ a.template = "mailingList" /\ a.list_identifier \notin {<<>>, <<"">>}

\* C18: create_filter_from_template validates before touching Gmail: with an
\* unknown template, or the template's required parameter missing or empty,
\* it raises without calling get_gmail_service and without a create request;
\* a create request is issued at most once, only after validation passed and
\* the service was obtained, and exactly once in a call that returns; archive
\* defaults to true for mailingList and to false for fromSender.
C18_ValidateBeforeGmail ==
    /\ (~FltValid /\ fpc # "start") =>
          (fpc = "raised" /\ Len(flt_log) = 1 /\ flt_log[1].ev = "raise")
    /\ \A x \in FltIdx :
         flt_log[x].ev \in {"get_gmail_service", "create"} => FltValid
    /\ \A x \in FltIdx :
         flt_log[x].ev = "create" =>
            (x = 2 /\ flt_log[1].ev = "get_gmail_service" /\ flt_log[1].ok)
    /\ fpc = "returned" =>
          Cardinality({x \in FltIdx : flt_log[x].ev = "create" /\ flt_log[x].ok}) = 1
    /\ FltValid => (fpc \in {"start", "validated", "create"} \/ Len(flt_log) >= 2)
    /\ \A x \in FltIdx :
         (flt_log[x].ev = "create" /\ fargs[1].template = "mailingList") =>
            flt_log[x].val[1].action.removeLabelIds =
               (IF fargs[1].archive = <<FALSE>> THEN <<>> ELSE <<"INBOX">>)
    /\ \A x \in FltIdx :
         (flt_log[x].ev = "create" /\ fargs[1].template = "fromSender") =>
            flt_log[x].val[1].action.removeLabelIds =
               (IF fargs[1].archive = <<TRUE>> THEN <<"INBOX">> ELSE <<>>)

C18_Witness ==
    /\ fpc = "raised"
    /\ fargs[1].template = "mailingList"
    /\ fargs[1].list_identifier = <<"">>
    /\ fargs[1].sender_email = <<"x">>
    /\ flt_log = <<FEvent("raise", FALSE, <<"is required">>)>>

-----------------------------------------------------------------------------
\* the elements of a sequence
Elems(q) == {q[x] : x \in 1..Len(q)}

\* the argument is given and not empty
Given(x) == x # <<>> /\ x # <<<<>>>>

\* C19: the addLabelIds of the modify request contains the labels of
\* label_ids and of add_label_ids when both are given, removeLabelIds equals
\* remove_label_ids, and a key is omitted exactly when its argument is
\* missing or empty.
C19_AddsEveryLabel ==
    \A x \in 1..Len(mod_log) :
        mod_log[x].ev = "modify" =>
            LET b == mod_log[x].val[1]
                a == margs[1]
            IN  /\ ("addLabelIds" \in DOMAIN b)
                      <=> (Given(a.label_ids) \/ Given(a.add_label_ids))
                /\ (Given(a.label_ids) /\ Given(a.add_label_ids)) =>
                      /\ Elems(a.label_ids[1]) \subseteq Elems(b.addLabelIds)
                      /\ Elems(a.add_label_ids[1]) \subseteq Elems(b.addLabelIds)
                /\ ("removeLabelIds" \in DOMAIN b) <=> Given(a.remove_label_ids)
                /\ Given(a.remove_label_ids) => b.removeLabelIds = a.remove_label_ids[1]

====
